---- MODULE Spec2Model ----
(***************************************************************************)
(* Model of ansible/dynamic_inventory.py: one invocation of the dynamic    *)
(* inventory script.  main() dispatches on sys.argv; in list mode          *)
(* generate_inventory() calls get_terraform_output(), which runs           *)
(* `terraform output -json`, and reshapes the parsed output into the       *)
(* Ansible inventory document that main() prints.                          *)
(*                                                                         *)
(* JSON values are tagged records: Str(s), Null, List (an array) and       *)
(* Map(f), f a function from key strings to JSON values.  A Python call    *)
(* that can raise is an operator returning [raised, val]: raised is the    *)
(* exception's class name, or "none".                                      *)
(***************************************************************************)
EXTENDS Integers, Sequences, FiniteSets, TLC

VARIABLES sys_argv, pc, outcome, terraform_output, inventory,
          stdout, stderr, raised, exit_status, tool_calls

vars == <<sys_argv, pc, outcome, terraform_output, inventory,
          stdout, stderr, raised, exit_status, tool_calls>>

(* ------------------------------ bounds -------------------------------- *)

\* Largest number of command-line arguments (sys.argv[1:]) explored.
MaxArgs == 3

(* ---------------------------- JSON values ----------------------------- *)

Str(s) == [kind |-> "str", s |-> s]

Null == [kind |-> "null"]

List == [kind |-> "list"]

Map(f) == [kind |-> "map", m |-> f]

EmptyDict == [k \in {} |-> Null]

\* A Python name that has not been assigned yet.
Unset == [kind |-> "unset"]

\* Python truthiness, as used by `not ec2_ip`.
Truthy(v) ==
    CASE v.kind = "str" -> v.s # ""
      [] v.kind = "map" -> DOMAIN v.m # {}
      [] OTHER -> FALSE

\* The `value` fields the provisioning tool may report.
Values == {Str(""), Null, Str("203.0.113.10"), Str("vault.test")}

\* What one output record may carry besides (or instead of) `value`.
RecordFields ==
    UNION {[S -> Values] : S \in SUBSET {"value"}}
    \cup {f @@ ("type" :> Str("string")) :
            f \in UNION {[S -> Values] : S \in SUBSET {"value"}}}

\* One top-level entry of the output: a record, or something that is not
\* a mapping at all.
Entries == {Map(f) : f \in RecordFields} \cup {Str("203.0.113.10"), List}

OutputKeys == {"ec2_public_ip", "vault_domain"}

\* Every document `terraform output -json` may print that parses as JSON.
Documents ==
    {Map(f) : f \in UNION {[S -> Entries] : S \in SUBSET OutputKeys}}
    \cup {List, Null, Str("vault.test")}

\* Captured stdout of the external command: text that json.loads accepts
\* (and the document it parses to), or text it rejects.
Text(d) == [json |-> TRUE, doc |-> d]

Garbage == [json |-> FALSE, doc |-> Unset]

\* How subprocess.run can end: the program cannot be started, it exits
\* non-zero, or it exits zero with some captured stdout.
Outcomes ==
    {[status |-> "not_found", out |-> Garbage]}
    \cup {[status |-> "nonzero", out |-> t] :
            t \in {Garbage, Text(Map(EmptyDict))}}
    \cup {[status |-> "zero", out |-> t] :
            t \in {Garbage} \cup {Text(d) : d \in Documents}}

NoOutcome == [status |-> "not_run", out |-> Garbage]

(* --------------------------- diagnostics ------------------------------ *)

RunErrorMsg == "Error running terraform output"

ParseErrorMsg == "Error parsing terraform output"

NoIpMsg == "Error: Could not get EC2 IP from terraform output"

MissingKeyMsg == "Error: Missing key in terraform output"

UsageMsg == "Usage: dynamic_inventory.py --list | --host <hostname>"

Traceback(exc) == <<"Traceback", exc>>

(* ------------------------ get_terraform_output ------------------------ *)

Ok(v) == [raised |-> "none", val |-> v]

Raise(exc) == [raised |-> exc, val |-> Unset]

\* subprocess.run(..., check=True)
subprocess_run(o) ==
    CASE o.status = "not_found" -> Raise("FileNotFoundError")
      [] o.status = "nonzero" -> Raise("CalledProcessError")
      [] OTHER -> Ok(o.out)

json_loads(t) == IF t.json THEN Ok(t.doc) ELSE Raise("JSONDecodeError")

\* get_terraform_output without the handler of json.JSONDecodeError.
get_terraform_output_no_json_handler(o) ==
    LET result == subprocess_run(o)
        parsed == IF result.raised # "none" THEN result
                  ELSE json_loads(result.val)
    IN  CASE parsed.raised = "CalledProcessError" ->
               [raised |-> "none", ret |-> Map(EmptyDict),
                err |-> <<RunErrorMsg>>]
          [] parsed.raised = "none" ->
               [raised |-> "none", ret |-> parsed.val, err |-> <<>>]
          [] OTHER ->
               [raised |-> parsed.raised, ret |-> Unset, err |-> <<>>]

\* The function's result on outcome o: what it returns or raises, and
\* the lines it prints to stderr.
get_terraform_output(o) ==
    LET result == subprocess_run(o)
        parsed == IF result.raised # "none" THEN result
                  ELSE json_loads(result.val)
    IN  CASE parsed.raised = "CalledProcessError" ->
               [raised |-> "none", ret |-> Map(EmptyDict),
                err |-> <<RunErrorMsg>>]
          [] parsed.raised = "JSONDecodeError" ->
               [raised |-> "none", ret |-> Map(EmptyDict),
                err |-> <<ParseErrorMsg>>]
          [] parsed.raised = "none" ->
               [raised |-> "none", ret |-> parsed.val, err |-> <<>>]
          [] OTHER ->
               [raised |-> parsed.raised, ret |-> Unset, err |-> <<>>]

(* -------------------------- generate_inventory ------------------------ *)

\* obj.get(key, default): only a dict has the method.
Get(obj, key, default) ==
    IF obj.kind # "map" THEN Raise("AttributeError")
    ELSE Ok(IF key \in DOMAIN obj.m THEN obj.m[key] ELSE default)

\* (obj.get(key, {}).get('value') or default): an empty value is replaced
\* by the default as well.
GetValue_or_default(obj, key, default) ==
    LET rec == Get(obj, key, Map(EmptyDict))
        val == IF rec.raised # "none" THEN rec
               ELSE Get(rec.val, "value", default)
    IN  IF val.raised = "none" /\ ~Truthy(val.val) THEN Ok(default) ELSE val

\* obj.get(key, {}).get('value', default)
GetValue(obj, key, default) ==
    LET rec == Get(obj, key, Map(EmptyDict))
    IN  IF rec.raised # "none" THEN rec ELSE Get(rec.val, "value", default)

EmptyInventory == "_meta" :> ("hostvars" :> EmptyDict)

\* The document with the host variables filed under the group's name.
BuildInventory_group_key(ec2_ip, vault_domain) ==
    ("vault_servers" :>
        [hosts |-> <<"vault_server">>,
         vars  |-> [vault_version    |-> Str("1.15.6"),
                    vault_domain     |-> vault_domain,
                    vault_root_token |-> Str("vault-dev-root-token")]])
    @@
    ("_meta" :>
        ("hostvars" :>
            ("vault_servers" :>
                [ansible_host |-> ec2_ip,
                 ansible_user |-> Str("ubuntu"),
                 ansible_ssh_private_key_file |-> Str("../vault-ssh-key.pem"),
                 ansible_ssh_common_args |->
                     Str("-o StrictHostKeyChecking=no")])))

BuildInventory(ec2_ip, vault_domain) ==
    ("vault_servers" :>
        [hosts |-> <<"vault_server">>,
         vars  |-> [vault_version    |-> Str("1.15.6"),
                    vault_domain     |-> vault_domain,
                    vault_root_token |-> Str("vault-dev-root-token")]])
    @@
    ("_meta" :>
        ("hostvars" :>
            ("vault_server" :>
                [ansible_host |-> ec2_ip,
                 ansible_user |-> Str("ubuntu"),
                 ansible_ssh_private_key_file |-> Str("../vault-ssh-key.pem"),
                 ansible_ssh_common_args |->
                     Str("-o StrictHostKeyChecking=no")])))

\* The body of generate_inventory after the call of get_terraform_output.
generate_inventory(tf) ==
    LET ec2_ip == GetValue(tf, "ec2_public_ip", Str(""))
        vault_domain == GetValue(tf, "vault_domain", Str("vault.example.com"))
        exc == IF ec2_ip.raised # "none" THEN ec2_ip.raised
               ELSE vault_domain.raised
    IN  CASE exc = "KeyError" ->
               [raised |-> "none", ret |-> EmptyInventory,
                err |-> <<MissingKeyMsg>>]
          [] exc # "KeyError" /\ exc # "none" ->
               [raised |-> exc, ret |-> Unset, err |-> <<>>]
          [] OTHER ->
               IF ~Truthy(ec2_ip.val)
               THEN [raised |-> "none", ret |-> EmptyInventory,
                     err |-> <<NoIpMsg>>]
               ELSE [raised |-> "none",
                     ret |-> BuildInventory(ec2_ip.val, vault_domain.val),
                     err |-> <<>>]

(* --------------------------------- main ------------------------------- *)

ScriptName == "dynamic_inventory.py"

Tokens == {"--list", "--host", "--bogus", "vault_server"}

ArgLists == UNION {[1..n -> Tokens] : n \in 0..MaxArgs}

\* Branch without the length test of the --list case.
Branch_list_any_length(argv) ==
    IF Len(argv) >= 2 /\ argv[2] = "--list" THEN "list"
    ELSE IF Len(argv) = 3 /\ argv[2] = "--host" THEN "host"
    ELSE "usage"

\* Branch with host mode building the inventory as list mode does.
Branch_host_builds_inventory(argv) ==
    IF Len(argv) = 2 /\ argv[2] = "--list" THEN "list"
    ELSE IF Len(argv) = 3 /\ argv[2] = "--host" THEN "list"
    ELSE "usage"

\* The branch main() takes on argv (argv[1] is Python's sys.argv[0]).
Branch(argv) ==
    IF Len(argv) = 2 /\ argv[2] = "--list" THEN "list"
    ELSE IF Len(argv) = 3 /\ argv[2] = "--host" THEN "host"
    ELSE "usage"

\* json.dumps(doc, indent=...), as one write to stdout; indent is <<>>
\* when the argument is left out and <<n>> for indent=n.
Dumps(doc, indent) == [json |-> doc, indent |-> indent]

\* Host mode answering with the variables of the one known host.
HostVars_lookup(hostname) ==
    IF hostname = "vault_server"
    THEN "ansible_user" :> Str("ubuntu")
    ELSE EmptyDict

\* What host mode serialises for hostname.
HostVars(hostname) == EmptyDict

Init ==
    /\ sys_argv \in {<<ScriptName>> \o a : a \in ArgLists}
    /\ pc = "main"
    /\ outcome = NoOutcome
    /\ terraform_output = Unset
    /\ inventory = Unset
    /\ stdout = <<>>
    /\ stderr = <<>>
    /\ raised = "none"
    /\ exit_status = -1
    /\ tool_calls = 0

\* main(): the if / elif / else on sys.argv.
Main ==
    /\ pc = "main"
    /\ pc' = Branch(sys_argv)
    /\ UNCHANGED <<sys_argv, outcome, terraform_output, inventory,
                   stdout, stderr, raised, exit_status, tool_calls>>

\* generate_inventory() calls get_terraform_output(), which runs the
\* external command once and waits for it.
GetTerraformOutput ==
    /\ pc = "list"
    /\ \E o \in Outcomes :
         LET r == get_terraform_output(o)
         IN  /\ outcome' = o
             /\ tool_calls' = tool_calls + 1
             /\ stderr' = stderr \o r.err
             /\ raised' = r.raised
             /\ terraform_output' = r.ret
             /\ pc' = IF r.raised = "none" THEN "extract" ELSE "crash"
    /\ UNCHANGED <<sys_argv, inventory, stdout, exit_status>>

\* The rest of generate_inventory(): extract the fields, build the document.
GenerateInventory ==
    /\ pc = "extract"
    /\ LET r == generate_inventory(terraform_output)
       IN  /\ stderr' = stderr \o r.err
           /\ raised' = r.raised
           /\ inventory' = r.ret
           /\ pc' = IF r.raised = "none" THEN "print" ELSE "crash"
    /\ UNCHANGED <<sys_argv, outcome, terraform_output, stdout,
                   exit_status, tool_calls>>

\* print(json.dumps(inventory, indent=2)); main returns.
PrintInventory ==
    /\ pc = "print"
    /\ stdout' = Append(stdout, Dumps(inventory, <<2>>))
    /\ exit_status' = 0
    /\ pc' = "done"
    /\ UNCHANGED <<sys_argv, outcome, terraform_output, inventory,
                   stderr, raised, tool_calls>>

\* print(json.dumps({})); main returns.
PrintHost ==
    /\ pc = "host"
    /\ stdout' = Append(stdout, Dumps(HostVars(sys_argv[3]), <<>>))
    /\ exit_status' = 0
    /\ pc' = "done"
    /\ UNCHANGED <<sys_argv, outcome, terraform_output, inventory,
                   stderr, raised, tool_calls>>

\* The usage message and sys.exit(1).
Usage ==
    /\ pc = "usage"
    /\ stderr' = Append(stderr, UsageMsg)
    /\ exit_status' = 1
    /\ pc' = "done"
    /\ UNCHANGED <<sys_argv, outcome, terraform_output, inventory,
                   stdout, raised, tool_calls>>

\* An exception no handler matched leaves main(): the interpreter prints
\* the traceback and exits with status 1.
Uncaught ==
    /\ pc = "crash"
    /\ stderr' = Append(stderr, Traceback(raised))
    /\ exit_status' = 1
    /\ pc' = "done"
    /\ UNCHANGED <<sys_argv, outcome, terraform_output, inventory,
                   stdout, raised, tool_calls>>

Next ==
    \/ Main
    \/ GetTerraformOutput
    \/ GenerateInventory
    \/ PrintInventory
    \/ PrintHost
    \/ Usage
    \/ Uncaught

Spec == Init /\ [][Next]_vars

(* ------------------------------ properties ---------------------------- *)

\* The command-line arguments, without the script's name.
Args == Tail(sys_argv)

ListArgs == Args = <<"--list">>

HostArgs == Len(Args) = 2 /\ Args[1] = "--host"

InvalidArgs == ~ListArgs /\ ~HostArgs

\* get_terraform_output has returned or raised.
ReaderFinished == tool_calls > 0

\* The body of generate_inventory has run to a return or to an exception.
GenerateFinished ==
    terraform_output # Unset /\ pc \in {"print", "crash", "done"}

\* generate_inventory has returned a document.
GenerateReturned == GenerateFinished /\ raised = "none" /\ inventory # Unset

IsRecord(tf, key) ==
    tf.kind = "map" /\ key \in DOMAIN tf.m /\ tf.m[key].kind = "map"

HasValue(tf, key) == IsRecord(tf, key) /\ "value" \in DOMAIN tf.m[key].m

ValueOf(tf, key) == tf.m[key].m["value"]

NonEmpty(v) == v # Str("") /\ v # Null

HasAddress(tf) ==
    HasValue(tf, "ec2_public_ip") /\ NonEmpty(ValueOf(tf, "ec2_public_ip"))

\* ec2_public_ip is missing, or is a record whose value is missing or empty.
AddressMissing(tf) ==
    /\ tf.kind = "map"
    /\ \/ "ec2_public_ip" \notin DOMAIN tf.m
       \/ /\ IsRecord(tf, "ec2_public_ip")
          /\ ~HasAddress(tf)

\* The top-level document, or one of the two records read, is not a mapping.
UnexpectedShape(tf) ==
    \/ tf.kind # "map"
    \/ \E k \in OutputKeys \cap DOMAIN tf.m : tf.m[k].kind # "map"

GroupKeys(doc) == DOMAIN doc \ {"_meta"}

HostVarsOf(doc) == doc["_meta"]["hostvars"]

\* C1: for every output that is a mapping whose ec2_public_ip record has a
\* non-empty value, generate_inventory returns a document whose
\* _meta.hostvars.vault_server.ansible_host is that value.
C1_AnsibleHostIsAddress ==
    (GenerateFinished /\ HasAddress(terraform_output)) =>
        /\ GenerateReturned
        /\ "vault_server" \in DOMAIN HostVarsOf(inventory)
        /\ HostVarsOf(inventory)["vault_server"].ansible_host
               = ValueOf(terraform_output, "ec2_public_ip")

\* C2: for every output in which ec2_public_ip is missing, or its value is
\* missing or empty, generate_inventory returns the empty-inventory
\* sentinel: _meta is the only key and _meta.hostvars is empty.
C2_MissingAddressGivesSentinel ==
    (GenerateFinished /\ AddressMissing(terraform_output)) =>
        /\ GenerateReturned
        /\ DOMAIN inventory = {"_meta"}
        /\ HostVarsOf(inventory) = EmptyDict

\* C3: in every document generate_inventory returns, each host listed
\* under a group's hosts is a key of _meta.hostvars.
C3_HostsHaveHostvars ==
    GenerateReturned =>
        \A g \in GroupKeys(inventory) :
            \A i \in DOMAIN inventory[g].hosts :
                inventory[g].hosts[i] \in DOMAIN HostVarsOf(inventory)

C3_Witness ==
    /\ GenerateReturned
    /\ "vault_servers" \in GroupKeys(inventory)
    /\ inventory["vault_servers"].hosts = <<"vault_server">>

\* C4: when the parsed output has an unexpected shape (the document or one
\* of the records read is not a mapping), generate_inventory catches the
\* lookup failure, prints a diagnostic and returns the sentinel.
C4_UnexpectedShapeIsCaught ==
    (GenerateFinished /\ UnexpectedShape(terraform_output)) =>
        /\ GenerateReturned
        /\ inventory = EmptyInventory
        /\ Len(stderr) >= 1
        /\ stderr[1] \in {NoIpMsg, MissingKeyMsg}

\* C5: when the command exits non-zero or its stdout is not JSON,
\* get_terraform_output does not raise, prints one diagnostic to stderr,
\* nothing to stdout, and returns the empty mapping; when the command
\* exits zero with JSON on stdout it returns the parsed document.
C5_ReaderDegradesToEmpty ==
    ReaderFinished =>
        /\ outcome.status = "nonzero" =>
              /\ raised = "none"
              /\ terraform_output = Map(EmptyDict)
              /\ Len(stderr) >= 1 /\ stderr[1] = RunErrorMsg
              /\ pc = "extract" => (stdout = <<>> /\ Len(stderr) = 1)
        /\ (outcome.status = "zero" /\ ~outcome.out.json) =>
              /\ raised = "none"
              /\ terraform_output = Map(EmptyDict)
              /\ Len(stderr) >= 1 /\ stderr[1] = ParseErrorMsg
              /\ pc = "extract" => (stdout = <<>> /\ Len(stderr) = 1)
        /\ (outcome.status = "zero" /\ outcome.out.json) =>
              /\ terraform_output = outcome.out.doc
              /\ pc = "extract" =>
                    (raised = "none" /\ stdout = <<>> /\ stderr = <<>>)

C5_Witness ==
    /\ pc = "extract"
    /\ outcome.status = "zero"
    /\ ~outcome.out.json
    /\ terraform_output = Map(EmptyDict)

\* C6: in list mode, whatever the fetch and the parse give, the process
\* ends with exactly one document on stdout and exit status 0.
C6_ListModeAlwaysSerialises ==
    (ListArgs /\ pc = "done") =>
        /\ exit_status = 0
        /\ Len(stdout) = 1
        /\ stdout[1].json = inventory

\* C7: for every argument list that is neither [--list] nor
\* [--host, name], main writes the usage message to stderr, nothing to
\* stdout, and exits with a non-zero status.
C7_InvalidArgsAreFatal ==
    InvalidArgs =>
        /\ stdout = <<>>
        /\ pc = "done" => (stderr = <<UsageMsg>> /\ exit_status # 0)
        /\ pc \in {"main", "usage", "done"}

C7_Witness ==
    /\ pc = "done"
    /\ Args = <<"--list", "vault_server">>
    /\ stderr = <<UsageMsg>>

\* C8: in host mode main writes the empty object to stdout and exits 0,
\* for every hostname and without consulting the provisioning output.
C8_HostModePrintsEmptyObject ==
    HostArgs =>
        /\ tool_calls = 0
        /\ pc = "done" =>
              (stdout = <<Dumps(EmptyDict, <<>>)>> /\ exit_status = 0)
        /\ pc \in {"main", "host", "done"}

C8_Witness ==
    /\ pc = "done"
    /\ Args = <<"--host", "vault_server">>
    /\ Len(stdout) = 1

\* C9: in the document returned for an output with a non-empty
\* ec2_public_ip.value, vault_servers.vars.vault_domain is
\* vault.example.com when the vault_domain output is missing and is
\* vault_domain.value, unchanged, when that output carries a value.
C9_VaultDomainDefaultOrVerbatim ==
    (GenerateReturned /\ HasAddress(terraform_output)) =>
        /\ "vault_servers" \in GroupKeys(inventory)
        /\ "vault_domain" \notin DOMAIN terraform_output.m =>
              inventory["vault_servers"].vars.vault_domain
                  = Str("vault.example.com")
        /\ HasValue(terraform_output, "vault_domain") =>
              inventory["vault_servers"].vars.vault_domain
                  = ValueOf(terraform_output, "vault_domain")

C9_Witness ==
    /\ GenerateReturned
    /\ HasAddress(terraform_output)
    /\ HasValue(terraform_output, "vault_domain")
    /\ ValueOf(terraform_output, "vault_domain") = Str("")
    /\ inventory["vault_servers"].vars.vault_domain = Str("")

\* C10: the provisioning tool is invoked at most once, only in list mode,
\* and only while nothing has been written to stdout; host mode and an
\* invalid invocation never invoke it.
C10_ToolOnceBeforeOutput ==
    /\ [](tool_calls <= 1 /\ (tool_calls > 0 => ListArgs))
    /\ [][tool_calls' # tool_calls => (stdout = <<>> /\ stdout' = <<>>)]_vars

C10_Witness ==
    /\ pc = "done"
    /\ tool_calls = 1
    /\ Len(stdout) = 1

====
